---- MODULE Spec2Model ----
(***************************************************************************)
(* Model of the research-and-write pipeline of "Research ai agent/main.py". *)
(*                                                                         *)
(* Python strings are sequences of one-character strings, so that          *)
(* substring tests ("Error" in text), prefix tests (startswith), slicing   *)
(* (prompt[:15000]) and concatenation are computed as the code computes    *)
(* them.  A character outside ASCII is written as its code point           *)
(* ("U+274C").  Python's None is the one-element sequence NoneVal, and a   *)
(* key missing from a JSON object is Absent: neither is a sequence of      *)
(* characters.                                                             *)
(***************************************************************************)
EXTENDS Integers, Sequences, FiniteSets, TLC

VARIABLES
  prompt,          \* argument `prompt` of the latest call_groq_api invocation
  transmitted,     \* the request bodies that invocation handed to requests.post
  response,        \* what the transport answered to that invocation
  result,          \* [ret, line]: what that invocation returned, and from which line
  max_tokens,      \* argument `max_tokens` of that invocation
  GROQ_API_KEY,    \* line 13
  SERPER_API_KEY,  \* line 12
  model_choice,    \* line 26
  topic,           \* line 21
  language,        \* line 22
  research_depth,  \* line 23
  pc,              \* position of the script run
  search_idx,      \* index into search_queries of the loop at line 180
  all_results,     \* line 179
  wiki_info,       \* line 186
  research_report, \* line 348
  article,         \* line 355
  final_article,   \* line 362
  test_result,     \* lines 316 and 546
  error_shown,     \* what the run showed with st.error and st.code, or as an exception
  sidebar_status,  \* outcome shown by the sidebar's Test Connection button
  netlog           \* network calls made by the current script run, in order

vars == <<prompt, transmitted, response, result, max_tokens, GROQ_API_KEY,
          SERPER_API_KEY, model_choice, topic, language, research_depth, pc,
          search_idx, all_results, wiki_info, research_report, article,
          final_article, test_result, error_shown, sidebar_status, netlog>>

-----------------------------------------------------------------------------
(* Program constants *)

\* line 100: len(prompt) > 15000, and line 101: prompt[:15000]
PromptLimit == 15000
\* line 108: min(max_tokens, 4000)
MaxTokensCeiling == 4000
\* line 139: response.text[:200]
Snippet400 == 200
\* line 146: response.text[:300]
SnippetStatus == 300
\* line 48: e.options[:5]
MaxOptions == 5
\* line 205: research_data['web_results'][:10]
MaxContextHits == 10
\* lines 173-177: three search queries
NumQueries == 3
\* lines 316 and 546: call_groq_api(..., 20)
TestMaxTokens == 20
\* line 232
ReportMaxTokens == 2500
\* line 264
ArticleMaxTokens == 3500
\* line 291
ImproveMaxTokens == 4000

(* Bounds of the model *)

\* the longest prompt handed to the completion client directly is
\* PromptLimit + MaxOver characters long
MaxOver == 2
\* the search backend returns at most MaxHits organic results per query
MaxHits == 1

-----------------------------------------------------------------------------
(* Python values *)

NoneVal == <<"<None>">>
Absent == <<"<absent>">>

\* truth value of an optional str: `if not X` is ~Truthy(X)
Truthy(s) == s # NoneVal /\ s # << >>

\* s.startswith(p)
StartsWith(s, p) == Len(s) >= Len(p) /\ SubSeq(s, 1, Len(p)) = p

\* sub in s, for two str
In(sub, s) == \E i \in 0..(Len(s) - Len(sub)) : \A k \in 1..Len(sub) : s[i + k] = sub[k]

\* s[:n]
Take(s, n) == SubSeq(s, 1, IF Len(s) < n THEN Len(s) ELSE n)

\* c.lower() of every character c that str.lower() changes, among the
\* characters below U+0250 and OHM SIGN, KELVIN SIGN and ANGSTROM SIGN
UpperToLower ==
  [c \in {"A", "B", "C", "D", "E", "F", "G", "H", "I", "J", "K", "L", "M", "N", "O", "P", "Q", "R",
          "S", "T", "U", "V", "W", "X", "Y", "Z", "U+00C0", "U+00C1", "U+00C2", "U+00C3", "U+00C4",
          "U+00C5", "U+00C6", "U+00C7", "U+00C8", "U+00C9", "U+00CA", "U+00CB", "U+00CC", "U+00CD",
          "U+00CE", "U+00CF", "U+00D0", "U+00D1", "U+00D2", "U+00D3", "U+00D4", "U+00D5", "U+00D6",
          "U+00D8", "U+00D9", "U+00DA", "U+00DB", "U+00DC", "U+00DD", "U+00DE", "U+0100", "U+0102",
          "U+0104", "U+0106", "U+0108", "U+010A", "U+010C", "U+010E", "U+0110", "U+0112", "U+0114",
          "U+0116", "U+0118", "U+011A", "U+011C", "U+011E", "U+0120", "U+0122", "U+0124", "U+0126",
          "U+0128", "U+012A", "U+012C", "U+012E", "U+0130", "U+0132", "U+0134", "U+0136", "U+0139",
          "U+013B", "U+013D", "U+013F", "U+0141", "U+0143", "U+0145", "U+0147", "U+014A", "U+014C",
          "U+014E", "U+0150", "U+0152", "U+0154", "U+0156", "U+0158", "U+015A", "U+015C", "U+015E",
          "U+0160", "U+0162", "U+0164", "U+0166", "U+0168", "U+016A", "U+016C", "U+016E", "U+0170",
          "U+0172", "U+0174", "U+0176", "U+0178", "U+0179", "U+017B", "U+017D", "U+0181", "U+0182",
          "U+0184", "U+0186", "U+0187", "U+0189", "U+018A", "U+018B", "U+018E", "U+018F", "U+0190",
          "U+0191", "U+0193", "U+0194", "U+0196", "U+0197", "U+0198", "U+019C", "U+019D", "U+019F",
          "U+01A0", "U+01A2", "U+01A4", "U+01A6", "U+01A7", "U+01A9", "U+01AC", "U+01AE", "U+01AF",
          "U+01B1", "U+01B2", "U+01B3", "U+01B5", "U+01B7", "U+01B8", "U+01BC", "U+01C4", "U+01C5",
          "U+01C7", "U+01C8", "U+01CA", "U+01CB", "U+01CD", "U+01CF", "U+01D1", "U+01D3", "U+01D5",
          "U+01D7", "U+01D9", "U+01DB", "U+01DE", "U+01E0", "U+01E2", "U+01E4", "U+01E6", "U+01E8",
          "U+01EA", "U+01EC", "U+01EE", "U+01F1", "U+01F2", "U+01F4", "U+01F6", "U+01F7", "U+01F8",
          "U+01FA", "U+01FC", "U+01FE", "U+0200", "U+0202", "U+0204", "U+0206", "U+0208", "U+020A",
          "U+020C", "U+020E", "U+0210", "U+0212", "U+0214", "U+0216", "U+0218", "U+021A", "U+021C",
          "U+021E", "U+0220", "U+0222", "U+0224", "U+0226", "U+0228", "U+022A", "U+022C", "U+022E",
          "U+0230", "U+0232", "U+023A", "U+023B", "U+023D", "U+023E", "U+0241", "U+0243", "U+0244",
          "U+0245", "U+0246", "U+0248", "U+024A", "U+024C", "U+024E", "U+2126", "U+212A", "U+212B"} |->
    CASE c = "A" -> <<"a">> [] c = "B" -> <<"b">> [] c = "C" -> <<"c">> [] c = "D" -> <<"d">>
      [] c = "E" -> <<"e">> [] c = "F" -> <<"f">> [] c = "G" -> <<"g">> [] c = "H" -> <<"h">>
      [] c = "I" -> <<"i">> [] c = "J" -> <<"j">> [] c = "K" -> <<"k">> [] c = "L" -> <<"l">>
      [] c = "M" -> <<"m">> [] c = "N" -> <<"n">> [] c = "O" -> <<"o">> [] c = "P" -> <<"p">>
      [] c = "Q" -> <<"q">> [] c = "R" -> <<"r">> [] c = "S" -> <<"s">> [] c = "T" -> <<"t">>
      [] c = "U" -> <<"u">> [] c = "V" -> <<"v">> [] c = "W" -> <<"w">> [] c = "X" -> <<"x">>
      [] c = "Y" -> <<"y">> [] c = "Z" -> <<"z">> [] c = "U+00C0" -> <<"U+00E0">>
      [] c = "U+00C1" -> <<"U+00E1">> [] c = "U+00C2" -> <<"U+00E2">>
      [] c = "U+00C3" -> <<"U+00E3">> [] c = "U+00C4" -> <<"U+00E4">>
      [] c = "U+00C5" -> <<"U+00E5">> [] c = "U+00C6" -> <<"U+00E6">>
      [] c = "U+00C7" -> <<"U+00E7">> [] c = "U+00C8" -> <<"U+00E8">>
      [] c = "U+00C9" -> <<"U+00E9">> [] c = "U+00CA" -> <<"U+00EA">>
      [] c = "U+00CB" -> <<"U+00EB">> [] c = "U+00CC" -> <<"U+00EC">>
      [] c = "U+00CD" -> <<"U+00ED">> [] c = "U+00CE" -> <<"U+00EE">>
      [] c = "U+00CF" -> <<"U+00EF">> [] c = "U+00D0" -> <<"U+00F0">>
      [] c = "U+00D1" -> <<"U+00F1">> [] c = "U+00D2" -> <<"U+00F2">>
      [] c = "U+00D3" -> <<"U+00F3">> [] c = "U+00D4" -> <<"U+00F4">>
      [] c = "U+00D5" -> <<"U+00F5">> [] c = "U+00D6" -> <<"U+00F6">>
      [] c = "U+00D8" -> <<"U+00F8">> [] c = "U+00D9" -> <<"U+00F9">>
      [] c = "U+00DA" -> <<"U+00FA">> [] c = "U+00DB" -> <<"U+00FB">>
      [] c = "U+00DC" -> <<"U+00FC">> [] c = "U+00DD" -> <<"U+00FD">>
      [] c = "U+00DE" -> <<"U+00FE">> [] c = "U+0100" -> <<"U+0101">>
      [] c = "U+0102" -> <<"U+0103">> [] c = "U+0104" -> <<"U+0105">>
      [] c = "U+0106" -> <<"U+0107">> [] c = "U+0108" -> <<"U+0109">>
      [] c = "U+010A" -> <<"U+010B">> [] c = "U+010C" -> <<"U+010D">>
      [] c = "U+010E" -> <<"U+010F">> [] c = "U+0110" -> <<"U+0111">>
      [] c = "U+0112" -> <<"U+0113">> [] c = "U+0114" -> <<"U+0115">>
      [] c = "U+0116" -> <<"U+0117">> [] c = "U+0118" -> <<"U+0119">>
      [] c = "U+011A" -> <<"U+011B">> [] c = "U+011C" -> <<"U+011D">>
      [] c = "U+011E" -> <<"U+011F">> [] c = "U+0120" -> <<"U+0121">>
      [] c = "U+0122" -> <<"U+0123">> [] c = "U+0124" -> <<"U+0125">>
      [] c = "U+0126" -> <<"U+0127">> [] c = "U+0128" -> <<"U+0129">>
      [] c = "U+012A" -> <<"U+012B">> [] c = "U+012C" -> <<"U+012D">>
      [] c = "U+012E" -> <<"U+012F">> [] c = "U+0130" -> <<"i", "U+0307">>
      [] c = "U+0132" -> <<"U+0133">> [] c = "U+0134" -> <<"U+0135">>
      [] c = "U+0136" -> <<"U+0137">> [] c = "U+0139" -> <<"U+013A">>
      [] c = "U+013B" -> <<"U+013C">> [] c = "U+013D" -> <<"U+013E">>
      [] c = "U+013F" -> <<"U+0140">> [] c = "U+0141" -> <<"U+0142">>
      [] c = "U+0143" -> <<"U+0144">> [] c = "U+0145" -> <<"U+0146">>
      [] c = "U+0147" -> <<"U+0148">> [] c = "U+014A" -> <<"U+014B">>
      [] c = "U+014C" -> <<"U+014D">> [] c = "U+014E" -> <<"U+014F">>
      [] c = "U+0150" -> <<"U+0151">> [] c = "U+0152" -> <<"U+0153">>
      [] c = "U+0154" -> <<"U+0155">> [] c = "U+0156" -> <<"U+0157">>
      [] c = "U+0158" -> <<"U+0159">> [] c = "U+015A" -> <<"U+015B">>
      [] c = "U+015C" -> <<"U+015D">> [] c = "U+015E" -> <<"U+015F">>
      [] c = "U+0160" -> <<"U+0161">> [] c = "U+0162" -> <<"U+0163">>
      [] c = "U+0164" -> <<"U+0165">> [] c = "U+0166" -> <<"U+0167">>
      [] c = "U+0168" -> <<"U+0169">> [] c = "U+016A" -> <<"U+016B">>
      [] c = "U+016C" -> <<"U+016D">> [] c = "U+016E" -> <<"U+016F">>
      [] c = "U+0170" -> <<"U+0171">> [] c = "U+0172" -> <<"U+0173">>
      [] c = "U+0174" -> <<"U+0175">> [] c = "U+0176" -> <<"U+0177">>
      [] c = "U+0178" -> <<"U+00FF">> [] c = "U+0179" -> <<"U+017A">>
      [] c = "U+017B" -> <<"U+017C">> [] c = "U+017D" -> <<"U+017E">>
      [] c = "U+0181" -> <<"U+0253">> [] c = "U+0182" -> <<"U+0183">>
      [] c = "U+0184" -> <<"U+0185">> [] c = "U+0186" -> <<"U+0254">>
      [] c = "U+0187" -> <<"U+0188">> [] c = "U+0189" -> <<"U+0256">>
      [] c = "U+018A" -> <<"U+0257">> [] c = "U+018B" -> <<"U+018C">>
      [] c = "U+018E" -> <<"U+01DD">> [] c = "U+018F" -> <<"U+0259">>
      [] c = "U+0190" -> <<"U+025B">> [] c = "U+0191" -> <<"U+0192">>
      [] c = "U+0193" -> <<"U+0260">> [] c = "U+0194" -> <<"U+0263">>
      [] c = "U+0196" -> <<"U+0269">> [] c = "U+0197" -> <<"U+0268">>
      [] c = "U+0198" -> <<"U+0199">> [] c = "U+019C" -> <<"U+026F">>
      [] c = "U+019D" -> <<"U+0272">> [] c = "U+019F" -> <<"U+0275">>
      [] c = "U+01A0" -> <<"U+01A1">> [] c = "U+01A2" -> <<"U+01A3">>
      [] c = "U+01A4" -> <<"U+01A5">> [] c = "U+01A6" -> <<"U+0280">>
      [] c = "U+01A7" -> <<"U+01A8">> [] c = "U+01A9" -> <<"U+0283">>
      [] c = "U+01AC" -> <<"U+01AD">> [] c = "U+01AE" -> <<"U+0288">>
      [] c = "U+01AF" -> <<"U+01B0">> [] c = "U+01B1" -> <<"U+028A">>
      [] c = "U+01B2" -> <<"U+028B">> [] c = "U+01B3" -> <<"U+01B4">>
      [] c = "U+01B5" -> <<"U+01B6">> [] c = "U+01B7" -> <<"U+0292">>
      [] c = "U+01B8" -> <<"U+01B9">> [] c = "U+01BC" -> <<"U+01BD">>
      [] c = "U+01C4" -> <<"U+01C6">> [] c = "U+01C5" -> <<"U+01C6">>
      [] c = "U+01C7" -> <<"U+01C9">> [] c = "U+01C8" -> <<"U+01C9">>
      [] c = "U+01CA" -> <<"U+01CC">> [] c = "U+01CB" -> <<"U+01CC">>
      [] c = "U+01CD" -> <<"U+01CE">> [] c = "U+01CF" -> <<"U+01D0">>
      [] c = "U+01D1" -> <<"U+01D2">> [] c = "U+01D3" -> <<"U+01D4">>
      [] c = "U+01D5" -> <<"U+01D6">> [] c = "U+01D7" -> <<"U+01D8">>
      [] c = "U+01D9" -> <<"U+01DA">> [] c = "U+01DB" -> <<"U+01DC">>
      [] c = "U+01DE" -> <<"U+01DF">> [] c = "U+01E0" -> <<"U+01E1">>
      [] c = "U+01E2" -> <<"U+01E3">> [] c = "U+01E4" -> <<"U+01E5">>
      [] c = "U+01E6" -> <<"U+01E7">> [] c = "U+01E8" -> <<"U+01E9">>
      [] c = "U+01EA" -> <<"U+01EB">> [] c = "U+01EC" -> <<"U+01ED">>
      [] c = "U+01EE" -> <<"U+01EF">> [] c = "U+01F1" -> <<"U+01F3">>
      [] c = "U+01F2" -> <<"U+01F3">> [] c = "U+01F4" -> <<"U+01F5">>
      [] c = "U+01F6" -> <<"U+0195">> [] c = "U+01F7" -> <<"U+01BF">>
      [] c = "U+01F8" -> <<"U+01F9">> [] c = "U+01FA" -> <<"U+01FB">>
      [] c = "U+01FC" -> <<"U+01FD">> [] c = "U+01FE" -> <<"U+01FF">>
      [] c = "U+0200" -> <<"U+0201">> [] c = "U+0202" -> <<"U+0203">>
      [] c = "U+0204" -> <<"U+0205">> [] c = "U+0206" -> <<"U+0207">>
      [] c = "U+0208" -> <<"U+0209">> [] c = "U+020A" -> <<"U+020B">>
      [] c = "U+020C" -> <<"U+020D">> [] c = "U+020E" -> <<"U+020F">>
      [] c = "U+0210" -> <<"U+0211">> [] c = "U+0212" -> <<"U+0213">>
      [] c = "U+0214" -> <<"U+0215">> [] c = "U+0216" -> <<"U+0217">>
      [] c = "U+0218" -> <<"U+0219">> [] c = "U+021A" -> <<"U+021B">>
      [] c = "U+021C" -> <<"U+021D">> [] c = "U+021E" -> <<"U+021F">>
      [] c = "U+0220" -> <<"U+019E">> [] c = "U+0222" -> <<"U+0223">>
      [] c = "U+0224" -> <<"U+0225">> [] c = "U+0226" -> <<"U+0227">>
      [] c = "U+0228" -> <<"U+0229">> [] c = "U+022A" -> <<"U+022B">>
      [] c = "U+022C" -> <<"U+022D">> [] c = "U+022E" -> <<"U+022F">>
      [] c = "U+0230" -> <<"U+0231">> [] c = "U+0232" -> <<"U+0233">>
      [] c = "U+023A" -> <<"U+2C65">> [] c = "U+023B" -> <<"U+023C">>
      [] c = "U+023D" -> <<"U+019A">> [] c = "U+023E" -> <<"U+2C66">>
      [] c = "U+0241" -> <<"U+0242">> [] c = "U+0243" -> <<"U+0180">>
      [] c = "U+0244" -> <<"U+0289">> [] c = "U+0245" -> <<"U+028C">>
      [] c = "U+0246" -> <<"U+0247">> [] c = "U+0248" -> <<"U+0249">>
      [] c = "U+024A" -> <<"U+024B">> [] c = "U+024C" -> <<"U+024D">>
      [] c = "U+024E" -> <<"U+024F">> [] c = "U+2126" -> <<"U+03C9">>
      [] c = "U+212A" -> <<"k">> [] c = "U+212B" -> <<"U+00E5">>]

\* s.lower() of a str of these characters; a character is lowered to one or
\* more characters (U+0130 to two)
RECURSIVE Lower(_)
Lower(s) ==
  IF s = << >> THEN << >>
  ELSE (IF Head(s) \in DOMAIN UpperToLower THEN UpperToLower[Head(s)] ELSE <<Head(s)>>)
       \o Lower(Tail(s))

\* str(n) for a natural number
RECURSIVE Str(_)
Str(n) ==
  LET digit == <<"0", "1", "2", "3", "4", "5", "6", "7", "8", "9">>[(n % 10) + 1]
  IN  IF n < 10 THEN <<digit>> ELSE Str(n \div 10) \o <<digit>>

\* type(v).__name__ of a JSON value
PyTypeName(type) ==
  CASE type = "dict" -> <<"d", "i", "c", "t">>
    [] type = "list" -> <<"l", "i", "s", "t">>
    [] type = "str" -> <<"s", "t", "r">>
    [] type = "int" -> <<"i", "n", "t">>
    [] type = "float" -> <<"f", "l", "o", "a", "t">>
    [] type = "bool" -> <<"b", "o", "o", "l">>
    [] type = "null" -> <<"N", "o", "n", "e", "T", "y", "p", "e">>

\* min(a, b)
Min(a, b) == IF a < b THEN a ELSE b

-----------------------------------------------------------------------------
(* String literals of the source *)

\* line 318: Error
ErrorWord ==
  <<"E","r","r","o","r">>
\* line 90: gsk_
KeyPrefix ==
  <<"g","s","k","_">>
\* line 316: Say 'Connection test successful'
TestPrompt ==
  <<"S","a","y"," ","'","C","o","n","n","e","c","t","i","o","n"," ","t","e","s","t"," ","s","u",
    "c","c","e","s","s","f","u","l","'">>
\* line 546: Say 'Hello! API working!'
SidebarPrompt ==
  <<"S","a","y"," ","'","H","e","l","l","o","!"," ","A","P","I"," ","w","o","r","k","i","n","g",
    "!","'">>
\* line 547: working
WordWorking ==
  <<"w","o","r","k","i","n","g">>
\* line 547: Hello
WordHello ==
  <<"H","e","l","l","o">>
\* line 88: Error: Groq API key not found.
MsgKeyNotFound ==
  <<"E","r","r","o","r",":"," ","G","r","o","q"," ","A","P","I"," ","k","e","y"," ","n","o","t",
    " ","f","o","u","n","d",".">>
\* line 91: Error: Invalid Groq API key format. Key should start with 'gsk_'
MsgKeyFormat ==
  <<"E","r","r","o","r",":"," ","I","n","v","a","l","i","d"," ","G","r","o","q"," ","A","P","I",
    " ","k","e","y"," ","f","o","r","m","a","t","."," ","K","e","y"," ","s","h","o","u","l","d",
    " ","s","t","a","r","t"," ","w","i","t","h"," ","'","g","s","k","_","'">>
\* line 101: \n\n[Content truncated due to length]
TruncationMarker ==
  <<"\n","\n","[","C","o","n","t","e","n","t"," ","t","r","u","n","c","a","t","e","d"," ","d","u",
    "e"," ","t","o"," ","l","e","n","g","t","h","]">>
\* line 125: Unknown 400 error
DefaultMessage ==
  <<"U","n","k","n","o","w","n"," ","4","0","0"," ","e","r","r","o","r">>
\* line 126: Unknown type
DefaultType ==
  <<"U","n","k","n","o","w","n"," ","t","y","p","e">>
\* line 129: model
WordModel ==
  <<"m","o","d","e","l">>
\* line 131: token
WordToken ==
  <<"t","o","k","e","n">>
\* line 133: rate
WordRate ==
  <<"r","a","t","e">>
\* line 130: Error: Model '
MsgModelHead ==
  <<"E","r","r","o","r",":"," ","M","o","d","e","l"," ","'">>
\* line 130: ' not available. Try: llama-3.1-8b-instant
MsgModelTail ==
  <<"'"," ","n","o","t"," ","a","v","a","i","l","a","b","l","e","."," ","T","r","y",":"," ","l",
    "l","a","m","a","-","3",".","1","-","8","b","-","i","n","s","t","a","n","t">>
\* line 132: Error: Token limit issue. 
MsgTokenHead ==
  <<"E","r","r","o","r",":"," ","T","o","k","e","n"," ","l","i","m","i","t"," ","i","s","s","u",
    "e","."," ">>
\* line 134: Error: Rate limit exceeded. 
MsgRateHead ==
  <<"E","r","r","o","r",":"," ","R","a","t","e"," ","l","i","m","i","t"," ","e","x","c","e","e",
    "d","e","d","."," ">>
\* line 136: Error 400: 
Msg400Head ==
  <<"E","r","r","o","r"," ","4","0","0",":"," ">>
\* line 136:  (Type: 
Msg400Mid ==
  <<" ","(","T","y","p","e",":"," ">>
\* line 136: )
Msg400Tail ==
  <<")">>
\* line 139: Error 400: Invalid request format. Response: 
Msg400Invalid ==
  <<"E","r","r","o","r"," ","4","0","0",":"," ","I","n","v","a","l","i","d"," ","r","e","q","u",
    "e","s","t"," ","f","o","r","m","a","t","."," ","R","e","s","p","o","n","s","e",":"," ">>
\* line 142: Error 401: Invalid API key. Please check your Groq API key.
Msg401 ==
  <<"E","r","r","o","r"," ","4","0","1",":"," ","I","n","v","a","l","i","d"," ","A","P","I"," ",
    "k","e","y","."," ","P","l","e","a","s","e"," ","c","h","e","c","k"," ","y","o","u","r"," ",
    "G","r","o","q"," ","A","P","I"," ","k","e","y",".">>
\* line 144: Error 429: Rate limit exceeded. Please wait a moment and try again.
Msg429 ==
  <<"E","r","r","o","r"," ","4","2","9",":"," ","R","a","t","e"," ","l","i","m","i","t"," ","e",
    "x","c","e","e","d","e","d","."," ","P","l","e","a","s","e"," ","w","a","i","t"," ","a"," ",
    "m","o","m","e","n","t"," ","a","n","d"," ","t","r","y"," ","a","g","a","i","n",".">>
\* line 146: Error 
MsgStatusHead ==
  <<"E","r","r","o","r"," ">>
\* line 146: : 
MsgStatusMid ==
  <<":"," ">>
\* line 151: Error: Unexpected response format: 
MsgUnexpectedFormat ==
  <<"E","r","r","o","r",":"," ","U","n","e","x","p","e","c","t","e","d"," ","r","e","s","p","o",
    "n","s","e"," ","f","o","r","m","a","t",":"," ">>
\* line 156: Error: Request timed out. Groq API is taking too long to respond.
MsgTimeout ==
  <<"E","r","r","o","r",":"," ","R","e","q","u","e","s","t"," ","t","i","m","e","d"," ","o","u",
    "t","."," ","G","r","o","q"," ","A","P","I"," ","i","s"," ","t","a","k","i","n","g"," ","t",
    "o","o"," ","l","o","n","g"," ","t","o"," ","r","e","s","p","o","n","d",".">>
\* line 158: Error: Cannot connect to Groq API. Check your internet connection.
MsgConnection ==
  <<"E","r","r","o","r",":"," ","C","a","n","n","o","t"," ","c","o","n","n","e","c","t"," ","t",
    "o"," ","G","r","o","q"," ","A","P","I","."," ","C","h","e","c","k"," ","y","o","u","r"," ",
    "i","n","t","e","r","n","e","t"," ","c","o","n","n","e","c","t","i","o","n",".">>
\* line 160: Error: Network issue: 
MsgNetwork ==
  <<"E","r","r","o","r",":"," ","N","e","t","w","o","r","k"," ","i","s","s","u","e",":"," ">>
\* line 162: Error: Invalid JSON response from Groq API: 
MsgInvalidJson ==
  <<"E","r","r","o","r",":"," ","I","n","v","a","l","i","d"," ","J","S","O","N"," ","r","e","s",
    "p","o","n","s","e"," ","f","r","o","m"," ","G","r","o","q"," ","A","P","I",":"," ">>
\* line 164: Error: Missing field in API response: 
MsgMissingField ==
  <<"E","r","r","o","r",":"," ","M","i","s","s","i","n","g"," ","f","i","e","l","d"," ","i","n",
    " ","A","P","I"," ","r","e","s","p","o","n","s","e",":"," ">>
\* line 166: Error: Unexpected issue: 
MsgUnexpected ==
  <<"E","r","r","o","r",":"," ","U","n","e","x","p","e","c","t","e","d"," ","i","s","s","u","e",
    ":"," ">>
\* line 48: Multiple topics found: 
WikiMultiple ==
  <<"M","u","l","t","i","p","l","e"," ","t","o","p","i","c","s"," ","f","o","u","n","d",":"," ">>
\* line 50: No Wikipedia page found for this topic.
WikiNoPage ==
  <<"N","o"," ","W","i","k","i","p","e","d","i","a"," ","p","a","g","e"," ","f","o","u","n","d",
    " ","f","o","r"," ","t","h","i","s"," ","t","o","p","i","c",".">>
\* line 204: Title: 
HitTitle ==
  <<"T","i","t","l","e",":"," ">>
\* line 204: \nContent: 
HitContent ==
  <<"\n","C","o","n","t","e","n","t",":"," ">>
\* line 204: \nSource: 
HitSource ==
  <<"\n","S","o","u","r","c","e",":"," ">>
\* line 204: \n
HitEnd ==
  <<"\n">>
\* line 208: Wikipedia Summary: 
WikiContextHead ==
  <<"W","i","k","i","p","e","d","i","a"," ","S","u","m","m","a","r","y",":"," ">>
\* line 210: \n    You are a senior researcher. Analyze the following informatio...
ReportTemplate1 ==
  <<"\n"," "," "," "," ","Y","o","u"," ","a","r","e"," ","a"," ","s","e","n","i","o","r"," ","r",
    "e","s","e","a","r","c","h","e","r","."," ","A","n","a","l","y","z","e"," ","t","h","e"," ",
    "f","o","l","l","o","w","i","n","g"," ","i","n","f","o","r","m","a","t","i","o","n"," ","a",
    "b","o","u","t"," ","\"">>
\* line 210: ' and create a comprehensive research report.\n\n    WEB SEARCH RESU...
ReportTemplate2 ==
  <<"\""," ","a","n","d"," ","c","r","e","a","t","e"," ","a"," ","c","o","m","p","r","e","h","e",
    "n","s","i","v","e"," ","r","e","s","e","a","r","c","h"," ","r","e","p","o","r","t",".","\n",
    "\n"," "," "," "," ","W","E","B"," ","S","E","A","R","C","H"," ","R","E","S","U","L","T","S",
    ":","\n"," "," "," "," ">>
\* line 210: \n\n    WIKIPEDIA REFERENCE:\n    
ReportTemplate3 ==
  <<"\n","\n"," "," "," "," ","W","I","K","I","P","E","D","I","A"," ","R","E","F","E","R","E","N",
    "C","E",":","\n"," "," "," "," ">>
\* line 210: \n\n    Create a structured research report that includes:\n    1. Ex...
ReportTemplate4 ==
  <<"\n","\n"," "," "," "," ","C","r","e","a","t","e"," ","a"," ","s","t","r","u","c","t","u","r",
    "e","d"," ","r","e","s","e","a","r","c","h"," ","r","e","p","o","r","t"," ","t","h","a","t",
    " ","i","n","c","l","u","d","e","s",":","\n"," "," "," "," ","1","."," ","E","x","e","c","u",
    "t","i","v","e"," ","S","u","m","m","a","r","y","\n"," "," "," "," ","2","."," ","K","e","y",
    " ","F","i","n","d","i","n","g","s"," ","a","n","d"," ","C","u","r","r","e","n","t"," ","T",
    "r","e","n","d","s","\n"," "," "," "," ","3","."," ","A","p","p","l","i","c","a","t","i","o",
    "n","s"," ","a","n","d"," ","U","s","e"," ","C","a","s","e","s","\n"," "," "," "," ","4",".",
    " ","C","h","a","l","l","e","n","g","e","s"," ","a","n","d"," ","L","i","m","i","t","a","t",
    "i","o","n","s","\n"," "," "," "," ","5","."," ","F","u","t","u","r","e"," ","O","u","t","l",
    "o","o","k","\n"," "," "," "," ","6","."," ","K","e","y"," ","S","t","a","t","i","s","t","i",
    "c","s"," ","(","i","f"," ","a","v","a","i","l","a","b","l","e",")","\n"," "," "," "," ","7",
    "."," ","I","m","p","o","r","t","a","n","t"," ","S","o","u","r","c","e","s","\n","\n"," "," ",
    " "," ","M","a","k","e"," ","t","h","e"," ","r","e","p","o","r","t"," ","i","n","f","o","r",
    "m","a","t","i","v","e",","," ","w","e","l","l","-","o","r","g","a","n","i","z","e","d",",",
    " ","a","n","d"," ","b","a","s","e","d"," ","o","n"," ","t","h","e"," ","p","r","o","v","i",
    "d","e","d"," ","r","e","s","e","a","r","c","h"," ","d","a","t","a",".","\n"," "," "," "," ",
    "F","o","c","u","s"," ","o","n"," ","a","c","c","u","r","a","c","y"," ","a","n","d"," ","c",
    "i","t","e"," ","r","e","l","e","v","a","n","t"," ","i","n","f","o","r","m","a","t","i","o",
    "n"," ","f","r","o","m"," ","t","h","e"," ","s","o","u","r","c","e","s",".","\n"," "," "," ",
    " ">>
\* line 245: \n    You are a professional content writer. Based on the research ...
ArticleTemplate1 ==
  <<"\n"," "," "," "," ","Y","o","u"," ","a","r","e"," ","a"," ","p","r","o","f","e","s","s","i",
    "o","n","a","l"," ","c","o","n","t","e","n","t"," ","w","r","i","t","e","r","."," ","B","a",
    "s","e","d"," ","o","n"," ","t","h","e"," ","r","e","s","e","a","r","c","h"," ","r","e","p",
    "o","r","t"," ","b","e","l","o","w",","," ","w","r","i","t","e"," ","a","n"," ","e","n","g",
    "a","g","i","n","g"," ","a","r","t","i","c","l","e"," ","a","b","o","u","t"," ","\"">>
\* line 245: ' in 
ArticleTemplate2 ==
  <<"\""," ","i","n"," ">>
\* line 245: .\n\n    RESEARCH REPORT:\n    
ArticleTemplate3 ==
  <<".","\n","\n"," "," "," "," ","R","E","S","E","A","R","C","H"," ","R","E","P","O","R","T",":",
    "\n"," "," "," "," ">>
\* line 245: \n\n    REQUIREMENTS:\n    - Write entirely in 
ArticleTemplate4 ==
  <<"\n","\n"," "," "," "," ","R","E","Q","U","I","R","E","M","E","N","T","S",":","\n"," "," ",
    " "," ","-"," ","W","r","i","t","e"," ","e","n","t","i","r","e","l","y"," ","i","n"," ">>
\* line 245:  language\n    - 
ArticleTemplate5 ==
  <<" ","l","a","n","g","u","a","g","e","\n"," "," "," "," ","-"," ">>
\* line 245: \n    - Structure: Introduction, Main Body (3-4 sections), Conclusi...
ArticleTemplate6 ==
  <<"\n"," "," "," "," ","-"," ","S","t","r","u","c","t","u","r","e",":"," ","I","n","t","r","o",
    "d","u","c","t","i","o","n",","," ","M","a","i","n"," ","B","o","d","y"," ","(","3","-","4",
    " ","s","e","c","t","i","o","n","s",")",","," ","C","o","n","c","l","u","s","i","o","n","\n",
    " "," "," "," ","-"," ","U","s","e"," ","c","l","e","a","r"," ","h","e","a","d","i","n","g",
    "s"," ","a","n","d"," ","s","u","b","h","e","a","d","i","n","g","s","\n"," "," "," "," ","-",
    " ","M","a","k","e"," ","i","t"," ","a","c","c","e","s","s","i","b","l","e"," ","t","o"," ",
    "b","o","t","h"," ","t","e","c","h","n","i","c","a","l"," ","a","n","d"," ","g","e","n","e",
    "r","a","l"," ","a","u","d","i","e","n","c","e","s","\n"," "," "," "," ","-"," ","I","n","c",
    "l","u","d","e"," ","r","e","l","e","v","a","n","t"," ","e","x","a","m","p","l","e","s"," ",
    "a","n","d"," ","i","n","s","i","g","h","t","s"," ","f","r","o","m"," ","t","h","e"," ","r",
    "e","s","e","a","r","c","h","\n"," "," "," "," ","-"," ","E","n","s","u","r","e"," ","p","r",
    "o","p","e","r"," ","f","l","o","w"," ","a","n","d"," ","e","n","g","a","g","i","n","g"," ",
    "s","t","y","l","e","\n"," "," "," "," ","-"," ","A","d","d"," ","a"," ","c","o","m","p","e",
    "l","l","i","n","g"," ","i","n","t","r","o","d","u","c","t","i","o","n"," ","a","n","d"," ",
    "s","t","r","o","n","g"," ","c","o","n","c","l","u","s","i","o","n","\n","\n"," "," "," "," ",
    "C","r","e","a","t","e"," ","a"," ","p","u","b","l","i","c","a","t","i","o","n","-","r","e",
    "a","d","y"," ","a","r","t","i","c","l","e"," ","t","h","a","t"," ","e","f","f","e","c","t",
    "i","v","e","l","y"," ","c","o","m","m","u","n","i","c","a","t","e","s"," ","t","h","e"," ",
    "t","o","p","i","c","'","s"," ","i","m","p","o","r","t","a","n","c","e"," ","a","n","d"," ",
    "i","m","p","l","i","c","a","t","i","o","n","s",".","\n"," "," "," "," ">>
\* line 271: \n    You are a professional editor. Review and improve the followi...
ImproveTemplate1 ==
  <<"\n"," "," "," "," ","Y","o","u"," ","a","r","e"," ","a"," ","p","r","o","f","e","s","s","i",
    "o","n","a","l"," ","e","d","i","t","o","r","."," ","R","e","v","i","e","w"," ","a","n","d",
    " ","i","m","p","r","o","v","e"," ","t","h","e"," ","f","o","l","l","o","w","i","n","g"," ",
    "a","r","t","i","c","l","e"," ","a","b","o","u","t"," ","\"">>
\* line 271: ' in 
ImproveTemplate2 ==
  <<"\""," ","i","n"," ">>
\* line 271: .\n\n    ARTICLE TO IMPROVE:\n    
ImproveTemplate3 ==
  <<".","\n","\n"," "," "," "," ","A","R","T","I","C","L","E"," ","T","O"," ","I","M","P","R","O",
    "V","E",":","\n"," "," "," "," ">>
\* line 271: \n\n    IMPROVEMENT TASKS:\n    1. Enhance readability and flow\n    2...
ImproveTemplate4 ==
  <<"\n","\n"," "," "," "," ","I","M","P","R","O","V","E","M","E","N","T"," ","T","A","S","K","S",
    ":","\n"," "," "," "," ","1","."," ","E","n","h","a","n","c","e"," ","r","e","a","d","a","b",
    "i","l","i","t","y"," ","a","n","d"," ","f","l","o","w","\n"," "," "," "," ","2","."," ","I",
    "m","p","r","o","v","e"," ","s","t","r","u","c","t","u","r","e"," ","a","n","d"," ","o","r",
    "g","a","n","i","z","a","t","i","o","n","\n"," "," "," "," ","3","."," ","A","d","d"," ","b",
    "e","t","t","e","r"," ","t","r","a","n","s","i","t","i","o","n","s"," ","b","e","t","w","e",
    "e","n"," ","s","e","c","t","i","o","n","s","\n"," "," "," "," ","4","."," ","E","n","s","u",
    "r","e"," ","c","o","n","s","i","s","t","e","n","t"," ","t","o","n","e"," ","a","n","d"," ",
    "s","t","y","l","e","\n"," "," "," "," ","5","."," ","F","i","x"," ","a","n","y"," ","g","r",
    "a","m","m","a","r"," ","o","r"," ","l","a","n","g","u","a","g","e"," ","i","s","s","u","e",
    "s","\n"," "," "," "," ","6","."," ","M","a","k","e"," ","t","h","e"," ","c","o","n","t","e",
    "n","t"," ","m","o","r","e"," ","e","n","g","a","g","i","n","g","\n"," "," "," "," ","7",".",
    " ","E","n","s","u","r","e"," ","a","l","l"," ","i","n","f","o","r","m","a","t","i","o","n",
    " ","i","s"," ","w","e","l","l","-","p","r","e","s","e","n","t","e","d","\n"," "," "," "," ",
    "8","."," ","A","d","d"," ","s","e","c","t","i","o","n"," ","b","r","e","a","k","s"," ","a",
    "n","d"," ","b","e","t","t","e","r"," ","f","o","r","m","a","t","t","i","n","g","\n","\n"," ",
    " "," "," ","R","e","t","u","r","n"," ","t","h","e"," ","i","m","p","r","o","v","e","d",",",
    " ","p","o","l","i","s","h","e","d"," ","v","e","r","s","i","o","n"," ","o","f"," ","t","h",
    "e"," ","a","r","t","i","c","l","e"," ","t","h","a","t","'","s"," ","r","e","a","d","y"," ",
    "f","o","r"," ","p","u","b","l","i","c","a","t","i","o","n",".","\n"," "," "," "," ","M","a",
    "i","n","t","a","i","n"," ","t","h","e"," ","s","a","m","e"," ","l","a","n","g","u","a","g",
    "e"," ","(">>
\* line 271: ) and overall content while making it significantly better.\n    
ImproveTemplate5 ==
  <<")"," ","a","n","d"," ","o","v","e","r","a","l","l"," ","c","o","n","t","e","n","t"," ","w",
    "h","i","l","e"," ","m","a","k","i","n","g"," ","i","t"," ","s","i","g","n","i","f","i","c",
    "a","n","t","l","y"," ","b","e","t","t","e","r",".","\n"," "," "," "," ">>
\* line 241: Create a detailed, comprehensive article (1500-2000 words) with in...
DepthDetailed ==
  <<"C","r","e","a","t","e"," ","a"," ","d","e","t","a","i","l","e","d",","," ","c","o","m","p",
    "r","e","h","e","n","s","i","v","e"," ","a","r","t","i","c","l","e"," ","(","1","5","0","0",
    "-","2","0","0","0"," ","w","o","r","d","s",")"," ","w","i","t","h"," ","i","n","-","d","e",
    "p","t","h"," ","a","n","a","l","y","s","i","s",".">>
\* line 243: Create a well-structured article (800-1200 words) covering the key...
DepthBasic ==
  <<"C","r","e","a","t","e"," ","a"," ","w","e","l","l","-","s","t","r","u","c","t","u","r","e",
    "d"," ","a","r","t","i","c","l","e"," ","(","8","0","0","-","1","2","0","0"," ","w","o","r",
    "d","s",")"," ","c","o","v","e","r","i","n","g"," ","t","h","e"," ","k","e","y"," ","p","o",
    "i","n","t","s",".">>
\* line 297: ❌ GROQ_API_KEY not found!
ShownNoKey ==
  <<"U+274C"," ","G","R","O","Q","_","A","P","I","_","K","E","Y"," ","n","o","t"," ","f","o","u",
    "n","d","!">>
\* line 310: ❌ Invalid Groq API key format!
ShownBadKey ==
  <<"U+274C"," ","I","n","v","a","l","i","d"," ","G","r","o","q"," ","A","P","I"," ","k","e","y",
    " ","f","o","r","m","a","t","!">>
\* line 319: ❌ Groq API connection failed!
ShownTestFailed ==
  <<"U+274C"," ","G","r","o","q"," ","A","P","I"," ","c","o","n","n","e","c","t","i","o","n"," ",
    "f","a","i","l","e","d","!">>
\* line 351: Research failed: 
ShownResearchFailed ==
  <<"R","e","s","e","a","r","c","h"," ","f","a","i","l","e","d",":"," ">>
\* line 358: Article generation failed: 
ShownArticleFailed ==
  <<"A","r","t","i","c","l","e"," ","g","e","n","e","r","a","t","i","o","n"," ","f","a","i","l",
    "e","d",":"," ">>
\* line 492: ❌ An error occurred: 
ShownException ==
  <<"U+274C"," ","A","n"," ","e","r","r","o","r"," ","o","c","c","u","r","r","e","d",":"," ">>
\* line 22: English
English ==
  <<"E","n","g","l","i","s","h">>
\* line 21: AI in Healthcare
DefaultTopic ==
  <<"A","I"," ","i","n"," ","H","e","a","l","t","h","c","a","r","e">>
\* line 29: llama-3.1-8b-instant
Llama8b ==
  <<"l","l","a","m","a","-","3",".","1","-","8","b","-","i","n","s","t","a","n","t">>
\* line 32: mixtral-8x7b-32768
Mixtral ==
  <<"m","i","x","t","r","a","l","-","8","x","7","b","-","3","2","7","6","8">>
\* line 125: ' object has no attribute 'get'
TextNoGetTail ==
  <<"'"," ","o","b","j","e","c","t"," ","h","a","s"," ","n","o"," ","a","t","t","r","i","b","u",
    "t","e"," ","'","g","e","t","'">>
\* line 129: 'NoneType' object has no attribute 'lower'
TextLowerError ==
  <<"'","N","o","n","e","T","y","p","e","'"," ","o","b","j","e","c","t"," ","h","a","s"," ","n",
    "o"," ","a","t","t","r","i","b","u","t","e"," ","'","l","o","w","e","r","'">>
\* line 150: argument of type '
TextArgumentOfType ==
  <<"a","r","g","u","m","e","n","t"," ","o","f"," ","t","y","p","e"," ","'">>
\* line 150: ' is not iterable
TextIsNotIterable ==
  <<"'"," ","i","s"," ","n","o","t"," ","i","t","e","r","a","b","l","e">>
\* line 150: list indices must be integers or slices, not str
TextListIndices ==
  <<"l","i","s","t"," ","i","n","d","i","c","e","s"," ","m","u","s","t"," ","b","e"," ","i","n",
    "t","e","g","e","r","s"," ","o","r"," ","s","l","i","c","e","s",","," ","n","o","t"," ","s",
    "t","r">>
\* line 150: string indices must be integers, not 'str'
TextStrIndices ==
  <<"s","t","r","i","n","g"," ","i","n","d","i","c","e","s"," ","m","u","s","t"," ","b","e"," ",
    "i","n","t","e","g","e","r","s",","," ","n","o","t"," ","'","s","t","r","'">>
\* line 150: choices
WordChoices ==
  <<"c","h","o","i","c","e","s">>
\* line 150: object of type 'NoneType' has no len()
TextNoLen ==
  <<"o","b","j","e","c","t"," ","o","f"," ","t","y","p","e"," ","'","N","o","n","e","T","y","p",
    "e","'"," ","h","a","s"," ","n","o"," ","l","e","n","(",")">>
\* line 153: 'NoneType' object is not subscriptable
TextNotSubscriptable ==
  <<"'","N","o","n","e","T","y","p","e","'"," ","o","b","j","e","c","t"," ","i","s"," ","n","o",
    "t"," ","s","u","b","s","c","r","i","p","t","a","b","l","e">>
\* line 48: [
ListOpen ==
  <<"[">>
\* line 48: ]
ListClose ==
  <<"]">>
\* line 48: , 
ListSep ==
  <<","," ">>
\* line 48: '
Quote ==
  <<"'">>
\* line 203: \n
Newline ==
  <<"\n">>
\* line 153: 'message'
TextKeyMessage ==
  <<"'","m","e","s","s","a","g","e","'">>
\* line 153: 'content'
TextKeyContent ==
  <<"'","c","o","n","t","e","n","t","'">>

(* Inputs: the values the environment supplies in this model *)

\* line 13: gsk_k
GoodKey ==
  <<"g","s","k","_","k">>
\* line 13: gsk
ShortKey ==
  <<"g","s","k">>
\* line 13: sk_gsk_
OtherKey ==
  <<"s","k","_","g","s","k","_">>
\* line 13: GSK_k
UpperKey ==
  <<"G","S","K","_","k">>
\* line 12: s
SerperKey ==
  <<"s">>
\* line 125: Rate limit
MsgRateOnly ==
  <<"R","a","t","e"," ","l","i","m","i","t">>
\* line 125: rate limit for model
MsgRateModel ==
  <<"r","a","t","e"," ","l","i","m","i","t"," ","f","o","r"," ","m","o","d","e","l">>
\* line 125: Rate of tokens
MsgRateToken ==
  <<"R","a","t","e"," ","o","f"," ","t","o","k","e","n","s">>
\* line 125: Model gone
MsgModelOnly ==
  <<"M","o","d","e","l"," ","g","o","n","e">>
\* line 125: max tokens
MsgTokenOnly ==
  <<"m","a","x"," ","t","o","k","e","n","s">>
\* line 125: bad
MsgOther ==
  <<"b","a","d">>
\* line 125: rate of TOKENS
MsgRateKelvin ==
  <<"r","a","t","e"," ","o","f"," ","T","O","U+212A","E","N","S">>
\* line 126: invalid_request_error
TypeInvalid ==
  <<"i","n","v","a","l","i","d","_","r","e","q","u","e","s","t","_","e","r","r","o","r">>
\* line 139: <html>
BodyHtml ==
  <<"<","h","t","m","l",">">>
\* line 148: {}
BodyJson ==
  <<"{","}">>
\* line 151: {}
ReprEmptyDict ==
  <<"{","}">>
\* line 151: {'choices': []}
ReprNoChoices ==
  <<"{","'","c","h","o","i","c","e","s","'",":"," ","[","]","}">>
\* line 151: []
ReprOfList ==
  <<"[","]">>
\* line 151: ['choices']
ReprChoicesList ==
  <<"[","'","c","h","o","i","c","e","s","'","]">>
\* line 162: Expecting value: line 1 column 1 (char 0)
DetailDecode ==
  <<"E","x","p","e","c","t","i","n","g"," ","v","a","l","u","e",":"," ","l","i","n","e"," ","1",
    " ","c","o","l","u","m","n"," ","1"," ","(","c","h","a","r"," ","0",")">>
\* line 160: Exceeded 30 redirects.
DetailRedirect ==
  <<"E","x","c","e","e","d","e","d"," ","3","0"," ","r","e","d","i","r","e","c","t","s",".">>
\* line 166: boom
DetailOther ==
  <<"b","o","o","m">>
\* line 40: AI is used.
WikiSummary ==
  <<"A","I"," ","i","s"," ","u","s","e","d",".">>
\* line 44: http://w
WikiUrl ==
  <<"h","t","t","p",":","/","/","w">>
\* line 45: AI
WikiTitle ==
  <<"A","I">>
\* line 76: T
HitTitleText ==
  <<"T">>
\* line 77: S
HitSnippetText ==
  <<"S">>
\* line 78: http://l
HitLinkText ==
  <<"h","t","t","p",":","/","/","l">>
\* line 82: 401 Client Error
DetailSearch ==
  <<"4","0","1"," ","C","l","i","e","n","t"," ","E","r","r","o","r">>
\* line 40: Connection aborted.
DetailWiki ==
  <<"C","o","n","n","e","c","t","i","o","n"," ","a","b","o","r","t","e","d",".">>
\* line 153: Hello
TextHello ==
  <<"H","e","l","l","o">>
\* line 153: No Error
TextWithError ==
  <<"N","o"," ","E","r","r","o","r">>
-----------------------------------------------------------------------------
(* What the transport can answer to requests.post (line 117) *)

\* response.json() of a body that is no JSON raises; `by` is the class raised:
\* json.JSONDecodeError itself or requests' subclass of it and of RequestException
NotJson(by, detail) ==
  [valid |-> FALSE, by |-> by, detail |-> detail, type |-> "none", repr |-> << >>,
   holds |-> FALSE,
   error |-> [present |-> FALSE, isdict |-> FALSE, type |-> "none", message |-> Absent,
              etype |-> Absent],
   choices |-> [present |-> FALSE, sized |-> FALSE, items |-> << >>]]

\* a JSON document of the given type ("dict", "list", "str", "int", "float",
\* "bool" or "null"); repr is its str(), and holds tells whether a list has
\* the element 'choices' or a str the substring 'choices'
JsonOther(type, repr, holds) ==
  [valid |-> TRUE, by |-> "none", detail |-> << >>, type |-> type, repr |-> repr,
   holds |-> holds,
   error |-> [present |-> FALSE, isdict |-> FALSE, type |-> "none", message |-> Absent,
              etype |-> Absent],
   choices |-> [present |-> FALSE, sized |-> FALSE, items |-> << >>]]

\* a JSON object with neither "error" nor "choices"
JsonEmpty(repr) == JsonOther("dict", repr, FALSE)

\* {"error": {"message": message, "type": etype}}, either possibly missing
JsonError(message, etype) ==
  [JsonEmpty(<< >>) EXCEPT !.error =
     [present |-> TRUE, isdict |-> TRUE, type |-> "dict", message |-> message,
      etype |-> etype]]

\* {"error": <a value of the given type, which is not "dict">}
JsonErrorNoDict(type) ==
  [JsonEmpty(<< >>) EXCEPT !.error =
     [present |-> TRUE, isdict |-> FALSE, type |-> type, message |-> Absent,
      etype |-> Absent]]

\* {"choices": items}; each item is [message, content] with message one of
\* "dict", "null", "absent"
JsonChoices(items, repr) ==
  [JsonEmpty(repr) EXCEPT !.choices = [present |-> TRUE, sized |-> TRUE, items |-> items]]

\* {"choices": null}
JsonChoicesNull ==
  [JsonEmpty(<< >>) EXCEPT !.choices = [present |-> TRUE, sized |-> FALSE, items |-> << >>]]

\* {"choices": [{"message": {"content": content}}]}
JsonCompletion(content) ==
  JsonChoices(<<[message |-> "dict", content |-> content]>>, << >>)

\* requests.post raised
Raised(kind, detail) ==
  [kind |-> kind, detail |-> detail, status_code |-> 0, text |-> << >>,
   json |-> NotJson("none", << >>)]

\* requests.post returned a response
Http(status_code, text, json) ==
  [kind |-> "Response", detail |-> << >>, status_code |-> status_code, text |-> text,
   json |-> json]

\* before any call
NoResponse == Raised("none", << >>)

\* a text as long as the prompt limit: within reach of the 3500 and 4000
\* tokens of the article and polish stages (lines 264 and 291), not of the 20
\* and 2500 tokens of the connection test and the report (lines 316 and 232)
LongText == [i \in 1..PromptLimit |-> IF i % 2 = 1 THEN "x" ELSE "y"]

RaisedResponses ==
  {Raised("Timeout", << >>), Raised("ConnectionError", << >>),
   Raised("RequestException", DetailRedirect), Raised("Exception", DetailOther)}

ErrorMessages ==
  {MsgRateOnly, MsgRateModel, MsgRateToken, MsgModelOnly, MsgTokenOnly, MsgOther,
   MsgRateKelvin, Absent, NoneVal}

Responses400 ==
  {Http(400, BodyJson, JsonError(m, TypeInvalid)) : m \in ErrorMessages}
  \cup {Http(400, BodyJson, JsonErrorNoDict(t)) : t \in {"str", "null", "list", "int"}}
  \cup {Http(400, BodyJson, JsonError(MsgOther, Absent)),
        Http(400, BodyJson, JsonEmpty(ReprEmptyDict)),
        Http(400, BodyJson, JsonOther("list", ReprOfList, FALSE)),
        Http(400, BodyJson, JsonOther("str", TextHello, FALSE)),
        Http(400, BodyHtml, NotJson("json", DetailDecode)),
        Http(400, BodyHtml, NotJson("requests", DetailDecode))}

ResponsesOtherStatus ==
  {Http(401, BodyJson, JsonEmpty(ReprEmptyDict)),
   Http(429, BodyJson, JsonEmpty(ReprEmptyDict)),
   Http(500, BodyHtml, NotJson("json", DetailDecode)),
   Http(503, BodyJson, JsonCompletion(TextHello))}

Responses200Malformed ==
  {Http(200, BodyHtml, NotJson("json", DetailDecode)),
   Http(200, BodyHtml, NotJson("requests", DetailDecode)),
   Http(200, BodyJson, JsonEmpty(ReprEmptyDict)),
   Http(200, BodyJson, JsonOther("list", ReprOfList, FALSE)),
   Http(200, BodyJson, JsonOther("list", ReprChoicesList, TRUE)),
   Http(200, BodyJson, JsonOther("str", TextHello, FALSE)),
   Http(200, BodyJson, JsonOther("str", WordChoices, TRUE)),
   Http(200, BodyJson, JsonOther("int", <<"5">>, FALSE)),
   Http(200, BodyJson, JsonOther("null", << >>, FALSE)),
   Http(200, BodyJson, JsonChoices(<< >>, ReprNoChoices)),
   Http(200, BodyJson, JsonChoicesNull),
   Http(200, BodyJson, JsonChoices(<<[message |-> "absent", content |-> Absent]>>, << >>)),
   Http(200, BodyJson, JsonChoices(<<[message |-> "null", content |-> Absent]>>, << >>)),
   Http(200, BodyJson, JsonCompletion(Absent))}

\* the completions carry a text, a text that holds "Error", or null
Responses ==
  {Http(200, BodyJson, JsonCompletion(c)) : c \in {TextHello, TextWithError, NoneVal}}
  \cup RaisedResponses \cup Responses400 \cup ResponsesOtherStatus
  \cup Responses200Malformed

\* the answers to a call that asks for max_tokens mt
ResponsesFor(mt) ==
  IF mt > ReportMaxTokens
  THEN Responses \cup {Http(200, BodyJson, JsonCompletion(LongText))}
  ELSE Responses

-----------------------------------------------------------------------------
(* call_groq_api, lines 86-166 *)

Returned(ret, line) == [ret |-> ret, line |-> line]

\* a faulty variant of Truncate: cuts a prompt of exactly PromptLimit characters too
TruncateFromLimit(p) ==
  IF Len(p) >= PromptLimit THEN SubSeq(p, 1, PromptLimit) \o TruncationMarker ELSE p

\* lines 99-101
Truncate(p) ==
  IF Len(p) > PromptLimit THEN SubSeq(p, 1, PromptLimit) \o TruncationMarker ELSE p

\* lines 103-112: the request body (temperature, top_p and stream are fixed)
RequestData(model, p, mt) ==
  [model |-> model, content |-> Truncate(p), max_tokens |-> Min(mt, MaxTokensCeiling)]

\* lines 129-136: the classification of a 400 by its error message
Classify400(model, message, etype) ==
  IF In(WordModel, Lower(message))
  THEN Returned(MsgModelHead \o model \o MsgModelTail, 130)
  ELSE IF In(WordToken, Lower(message))
  THEN Returned(MsgTokenHead \o message, 132)
  ELSE IF In(WordRate, Lower(message))
  THEN Returned(MsgRateHead \o message, 134)
  ELSE Returned(Msg400Head \o message \o Msg400Mid \o etype \o Msg400Tail, 136)

\* str(e) of the AttributeError that .get raises at lines 125-126 on a value
\* that is no dict
NoGetText(j) ==
  Quote \o PyTypeName(IF j.type # "dict" THEN j.type ELSE j.error.type) \o TextNoGetTail

\* str(e) of the TypeError that `'choices' not in result` raises at line 150
\* on a value that is no container; the same for `"Error" in None`
NotIterableText(type) == TextArgumentOfType \o PyTypeName(type) \o TextIsNotIterable

\* lines 122-139
Handle400(model, r) ==
  LET j == r.json
      message == IF j.error.present /\ j.error.message # Absent
                 THEN j.error.message ELSE DefaultMessage
      etype == IF j.error.present /\ j.error.etype # Absent
               THEN j.error.etype ELSE DefaultType
  IN  IF ~j.valid
      THEN Returned(Msg400Invalid \o Take(r.text, Snippet400), 139)
      ELSE IF j.type # "dict" \/ (j.error.present /\ ~j.error.isdict)
      THEN Returned(MsgUnexpected \o NoGetText(j), 166)
      ELSE IF message = NoneVal
      THEN Returned(MsgUnexpected \o TextLowerError, 166)
      ELSE Classify400(model, message, etype)

\* a faulty variant of Handle200: the except clauses of lines 163-166 are
\* missing, so that a KeyError or a TypeError leaves call_groq_api without a
\* return (line 0)
Handle200Uncaught(r) ==
  LET j == r.json
      c == j.choices
  IN  IF ~j.valid
      THEN IF j.by = "requests"
           THEN Returned(MsgNetwork \o j.detail, 160)
           ELSE Returned(MsgInvalidJson \o j.detail, 162)
      ELSE IF j.type \in {"null", "int", "float", "bool"}
      THEN Returned(NoneVal, 0)
      ELSE IF j.type \in {"list", "str"}
      THEN IF j.holds THEN Returned(NoneVal, 0)
           ELSE Returned(MsgUnexpectedFormat \o j.repr, 151)
      ELSE IF ~c.present
      THEN Returned(MsgUnexpectedFormat \o j.repr, 151)
      ELSE IF ~c.sized
      THEN Returned(NoneVal, 0)
      ELSE IF Len(c.items) = 0
      THEN Returned(MsgUnexpectedFormat \o j.repr, 151)
      ELSE IF c.items[1].message # "dict" \/ c.items[1].content = Absent
      THEN Returned(NoneVal, 0)
      ELSE Returned(c.items[1].content, 153)

\* lines 148-153
Handle200(r) ==
  LET j == r.json
      c == j.choices
  IN  IF ~j.valid
      THEN IF j.by = "requests"
           THEN Returned(MsgNetwork \o j.detail, 160)
           ELSE Returned(MsgInvalidJson \o j.detail, 162)
      ELSE IF j.type \in {"null", "int", "float", "bool"}
      THEN \* line 150: `'choices' not in result` raises TypeError
           Returned(MsgUnexpected \o NotIterableText(j.type), 166)
      ELSE IF j.type = "list"
      THEN \* line 150: `in` looks at the elements, then result['choices'] raises
           IF j.holds THEN Returned(MsgUnexpected \o TextListIndices, 166)
           ELSE Returned(MsgUnexpectedFormat \o j.repr, 151)
      ELSE IF j.type = "str"
      THEN \* line 150: `in` looks for the substring, then result['choices'] raises
           IF j.holds THEN Returned(MsgUnexpected \o TextStrIndices, 166)
           ELSE Returned(MsgUnexpectedFormat \o j.repr, 151)
      ELSE IF ~c.present
      THEN Returned(MsgUnexpectedFormat \o j.repr, 151)
      ELSE IF ~c.sized
      THEN Returned(MsgUnexpected \o TextNoLen, 166)
      ELSE IF Len(c.items) = 0
      THEN Returned(MsgUnexpectedFormat \o j.repr, 151)
      ELSE IF c.items[1].message = "absent"
      THEN Returned(MsgMissingField \o TextKeyMessage, 164)
      ELSE IF c.items[1].message = "null"
      THEN Returned(MsgUnexpected \o TextNotSubscriptable, 166)
      ELSE IF c.items[1].content = Absent
      THEN Returned(MsgMissingField \o TextKeyContent, 164)
      ELSE Returned(c.items[1].content, 153)

\* lines 116-166: what call_groq_api returns once requests.post has answered r
HandleResponse(model, r) ==
  CASE r.kind = "Timeout" -> Returned(MsgTimeout, 156)
    [] r.kind = "ConnectionError" -> Returned(MsgConnection, 158)
    [] r.kind = "RequestException" -> Returned(MsgNetwork \o r.detail, 160)
    [] r.kind = "Exception" -> Returned(MsgUnexpected \o r.detail, 166)
    [] r.kind = "Response" ->
         IF r.status_code = 400 THEN Handle400(model, r)
         ELSE IF r.status_code = 401 THEN Returned(Msg401, 142)
         ELSE IF r.status_code = 429 THEN Returned(Msg429, 144)
         ELSE IF r.status_code # 200
         THEN Returned(MsgStatusHead \o Str(r.status_code) \o MsgStatusMid
                       \o Take(r.text, SnippetStatus), 146)
         ELSE Handle200(r)

\* a faulty variant of Posts: the request is sent a second time
PostsWithRetry(data) == <<data, data>>

\* lines 116-117: the transport calls one invocation makes once the key has
\* passed the checks
Posts(data) == <<data>>

\* a faulty variant of call_groq_api: the check of line 90 is missing
call_groq_api_any_key(key, model, p, mt, r) ==
  IF ~Truthy(key)
  THEN [ret |-> MsgKeyNotFound, line |-> 88, posts |-> << >>]
  ELSE LET h == HandleResponse(model, r)
       IN  [ret |-> h.ret, line |-> h.line, posts |-> Posts(RequestData(model, p, mt))]

\* lines 86-166: [ret, line, posts] for key, model, prompt p, max_tokens mt,
\* when the transport answers r
call_groq_api(key, model, p, mt, r) ==
  IF ~Truthy(key)
  THEN [ret |-> MsgKeyNotFound, line |-> 88, posts |-> << >>]
  ELSE IF ~StartsWith(key, KeyPrefix)
  THEN [ret |-> MsgKeyFormat, line |-> 91, posts |-> << >>]
  ELSE LET h == HandleResponse(model, r)
       IN  [ret |-> h.ret, line |-> h.line, posts |-> Posts(RequestData(model, p, mt))]

-----------------------------------------------------------------------------
(* web_search, lines 53-83 *)

\* the "organic" array of a search answer with n results, every second one
\* without "snippet"
Organic(n) ==
  [i \in 1..n |->
     [title |-> HitTitleText, snippet |-> IF i % 2 = 1 THEN HitSnippetText ELSE Absent,
      link |-> HitLinkText]]

\* what the search backend can answer: an exception anywhere in lines 68-80
\* (transport error, HTTP error status, a body that is no JSON), a JSON
\* object without "organic", or one with up to MaxHits results
SearchOutcomes ==
  {[kind |-> "raised", detail |-> DetailSearch, organic |-> << >>],
   [kind |-> "no_organic", detail |-> << >>, organic |-> << >>]}
  \cup {[kind |-> "organic", detail |-> << >>, organic |-> Organic(n)] : n \in 0..MaxHits}

\* result.get(key, "")
GetOrEmpty(v) == IF v = Absent THEN << >> ELSE v

\* lines 72-80
SearchResults(organic) ==
  [i \in 1..Len(organic) |->
     [title |-> GetOrEmpty(organic[i].title), snippet |-> GetOrEmpty(organic[i].snippet),
      link |-> GetOrEmpty(organic[i].link)]]

\* a faulty variant of web_search: the except clause of line 81 is missing
web_search_uncaught(key, o) ==
  IF ~Truthy(key)
  THEN [hits |-> << >>, calls |-> 0, raised |-> FALSE]
  ELSE IF o.kind = "raised"
  THEN [hits |-> << >>, calls |-> 1, raised |-> TRUE]
  ELSE IF o.kind = "no_organic"
  THEN [hits |-> << >>, calls |-> 1, raised |-> FALSE]
  ELSE [hits |-> SearchResults(o.organic), calls |-> 1, raised |-> FALSE]

\* lines 53-83: [hits, calls, raised] of web_search when the backend answers o;
\* line 81 catches every exception (the st.warning of line 82 is display only)
web_search(key, o) ==
  IF ~Truthy(key)
  THEN [hits |-> << >>, calls |-> 0, raised |-> FALSE]
  ELSE IF o.kind = "raised"
  THEN [hits |-> << >>, calls |-> 1, raised |-> FALSE]
  ELSE IF o.kind = "no_organic"
  THEN [hits |-> << >>, calls |-> 1, raised |-> FALSE]
  ELSE [hits |-> SearchResults(o.organic), calls |-> 1, raised |-> FALSE]

-----------------------------------------------------------------------------
(* wikipedia_search, lines 38-50 *)

\* repr of a list of str without quotes or backslashes in them
RECURSIVE ReprItems(_)
ReprItems(l) ==
  IF Len(l) = 0 THEN << >>
  ELSE IF Len(l) = 1 THEN Quote \o l[1] \o Quote
  ELSE Quote \o l[1] \o Quote \o ListSep \o ReprItems(Tail(l))

ReprList(l) == ListOpen \o ReprItems(l) \o ListClose

Options6 == << <<"a">>, <<"b">>, <<"c">>, <<"d">>, <<"e">>, <<"f">> >>

\* what the two library calls of lines 40-41 can do: `at` is the call that
\* raises ("none": both return), `exc` the class raised
WikiOutcomes ==
  {[at |-> "none", exc |-> "none", options |-> << >>, detail |-> << >>],
   [at |-> "summary", exc |-> "DisambiguationError", options |-> Options6, detail |-> << >>],
   [at |-> "summary", exc |-> "PageError", options |-> << >>, detail |-> << >>],
   [at |-> "page", exc |-> "PageError", options |-> << >>, detail |-> << >>],
   [at |-> "summary", exc |-> "Other", options |-> << >>, detail |-> DetailWiki],
   [at |-> "page", exc |-> "Other", options |-> << >>, detail |-> DetailWiki]}

NoWikiInfo == [summary |-> << >>, url |-> << >>, title |-> << >>]

\* lines 38-50: [raised, info, calls] of wikipedia_search when the library does o;
\* an exception that is neither a DisambiguationError nor a PageError is not
\* caught here
wikipedia_search(o) ==
  LET calls == IF o.at = "summary" THEN 1 ELSE 2
  IN  IF o.exc = "none"
      THEN [raised |-> FALSE, calls |-> calls,
            info |-> [summary |-> WikiSummary, url |-> WikiUrl, title |-> WikiTitle]]
      ELSE IF o.exc = "DisambiguationError"
      THEN [raised |-> FALSE, calls |-> calls,
            info |-> [summary |-> WikiMultiple \o ReprList(Take(o.options, MaxOptions)),
                      url |-> << >>, title |-> << >>]]
      ELSE IF o.exc = "PageError"
      THEN [raised |-> FALSE, calls |-> calls,
            info |-> [summary |-> WikiNoPage, url |-> << >>, title |-> << >>]]
      ELSE [raised |-> TRUE, calls |-> calls, info |-> NoWikiInfo]

-----------------------------------------------------------------------------
(* The prompts of the three stages *)

\* sep.join(l)
RECURSIVE Join(_, _)
Join(l, sep) ==
  IF Len(l) = 0 THEN << >>
  ELSE IF Len(l) = 1 THEN l[1]
  ELSE l[1] \o sep \o Join(Tail(l), sep)

\* line 204
HitText(h) == HitTitle \o h.title \o HitContent \o h.snippet \o HitSource \o h.link \o HitEnd

\* lines 203-206
web_context(hits) ==
  LET used == Take(hits, MaxContextHits)
  IN  Join([i \in 1..Len(used) |-> HitText(used[i])], Newline)

\* lines 208-230
research_prompt(t, hits, wiki) ==
  ReportTemplate1 \o t \o ReportTemplate2 \o web_context(hits) \o ReportTemplate3
  \o WikiContextHead \o wiki.summary \o ReportTemplate4

\* lines 239-243
depth_instruction(depth) == IF depth = "Detailed" THEN DepthDetailed ELSE DepthBasic

\* lines 245-262
article_prompt(t, lang, report, depth) ==
  ArticleTemplate1 \o t \o ArticleTemplate2 \o lang \o ArticleTemplate3 \o report
  \o ArticleTemplate4 \o lang \o ArticleTemplate5 \o depth_instruction(depth)
  \o ArticleTemplate6

\* lines 271-289
improvement_prompt(art, t, lang) ==
  ImproveTemplate1 \o t \o ImproveTemplate2 \o lang \o ImproveTemplate3 \o art
  \o ImproveTemplate4 \o lang \o ImproveTemplate5

-----------------------------------------------------------------------------
(* The state before a script run *)

Keys == {NoneVal, << >>, GoodKey, ShortKey, OtherKey, UpperKey}

NoResult == [ret |-> NoneVal, line |-> 0]

\* the script has not run yet: nothing called, nothing computed, nothing shown
Fresh ==
  /\ transmitted = << >>
  /\ response = NoResponse
  /\ result = NoResult
  /\ search_idx = 0
  /\ all_results = << >>
  /\ wiki_info = NoWikiInfo
  /\ research_report = NoneVal
  /\ article = NoneVal
  /\ final_article = NoneVal
  /\ test_result = NoneVal
  /\ error_shown = << >>
  /\ sidebar_status = "none"
  /\ netlog = << >>

\* lines 11-35: the environment and the widgets, before a button is clicked
InitRun ==
  /\ GROQ_API_KEY \in Keys
  /\ SERPER_API_KEY \in {NoneVal, SerperKey}
  /\ model_choice = Llama8b
  /\ topic = DefaultTopic
  /\ language = English
  /\ research_depth \in {"Basic", "Detailed"}
  /\ pc = "idle"
  /\ prompt = << >>
  /\ max_tokens = 0
  /\ Fresh

\* a str of n characters
Text(n) == [i \in 1..n |-> IF i % 2 = 1 THEN "p" ELSE "q"]

\* a direct invocation of call_groq_api: any key, a prompt around the limit of
\* line 100, a max_tokens around the ceiling of line 108
InitClient ==
  /\ GROQ_API_KEY \in Keys
  /\ SERPER_API_KEY = NoneVal
  /\ model_choice \in {Llama8b, Mixtral}
  /\ topic = DefaultTopic
  /\ language = English
  /\ research_depth = "Basic"
  /\ pc = "client"
  /\ prompt \in {Text(n) : n \in {0, 1} \cup ((PromptLimit - 1)..(PromptLimit + MaxOver))}
  /\ max_tokens \in {TestMaxTokens, MaxTokensCeiling, MaxTokensCeiling + 1}
  /\ Fresh

Init == InitRun \/ InitClient

-----------------------------------------------------------------------------
(* The script run started by the Generate button, lines 295-367 *)

\* a faulty variant of IsError: looks for "Error:" at the start of the text only
IsErrorPrefixed(text) == StartsWith(text, ErrorWord \o <<":">>)

\* lines 318, 350, 357 and 365: "Error" in text
IsError(text) == In(ErrorWord, text)

\* a faulty variant of AfterArticle: the depth is not looked at
AlwaysPolish(depth) == "polish"

\* line 363: where the run goes once the article is written
AfterArticle(depth) == IF depth = "Detailed" THEN "polish" ELSE "done"

\* a faulty variant of FinalArticle: the fallback of line 367 is missing
KeepImproved(improved, art) == improved

\* lines 364-367: final_article once improve_article has returned a str
FinalArticle(improved, art) == IF IsError(improved) THEN art ELSE improved

Shown(level, text) == [level |-> level, text |-> text]

\* the entries one invocation of call_groq_api adds to the log of network calls
CompletionCalls(stage, res) ==
  [i \in 1..Len(res.posts) |->
     [svc |-> "completion", stage |-> stage, line |-> res.line, none |-> res.ret = NoneVal]]

OtherCalls(svc, stage, n) ==
  [i \in 1..n |-> [svc |-> svc, stage |-> stage, line |-> 0, none |-> FALSE]]

\* an invocation of call_groq_api with prompt p and max_tokens mt, answered by r
Invoke(stage, p, mt, r) ==
  LET res == call_groq_api(GROQ_API_KEY, model_choice, p, mt, r)
  IN  /\ prompt' = p
      /\ max_tokens' = mt
      /\ transmitted' = res.posts
      /\ response' = IF res.posts = << >> THEN NoResponse ELSE r
      /\ result' = [ret |-> res.ret, line |-> res.line]
      /\ netlog' = netlog \o CompletionCalls(stage, res)

\* lines 295-312: the button is clicked; the credential checks
StartRun ==
  /\ pc = "idle"
  /\ prompt' = << >>
  /\ max_tokens' = 0
  /\ transmitted' = << >>
  /\ response' = NoResponse
  /\ result' = NoResult
  /\ test_result' = NoneVal
  /\ sidebar_status' = "none"
  /\ netlog' = << >>
  /\ IF ~Truthy(GROQ_API_KEY)
     THEN /\ error_shown' = <<Shown("error", ShownNoKey)>>
          /\ pc' = "failed"
     ELSE IF ~StartsWith(GROQ_API_KEY, KeyPrefix)
     THEN /\ error_shown' = <<Shown("error", ShownBadKey)>>
          /\ pc' = "failed"
     ELSE /\ error_shown' = << >>
          /\ pc' = "testing"
  /\ UNCHANGED <<GROQ_API_KEY, SERPER_API_KEY, model_choice, topic, language,
                 research_depth, search_idx, all_results, wiki_info, research_report,
                 article, final_article>>

\* lines 314-338: the connection test
ConnectionTest ==
  /\ pc = "testing"
  /\ \E r \in Responses :
       LET ret == call_groq_api(GROQ_API_KEY, model_choice, TestPrompt, TestMaxTokens, r).ret
       IN  /\ Invoke("test", TestPrompt, TestMaxTokens, r)
           /\ test_result' = ret
           /\ IF ret = NoneVal
              THEN \* line 318 raises TypeError outside the try block
                   /\ error_shown' = <<Shown("exception", NotIterableText("null"))>>
                   /\ pc' = "failed"
                   /\ search_idx' = search_idx
              ELSE IF IsError(ret)
              THEN /\ error_shown' = <<Shown("error", ShownTestFailed), Shown("code", ret)>>
                   /\ pc' = "failed"
                   /\ search_idx' = search_idx
              ELSE /\ error_shown' = << >>
                   /\ pc' = "searching"
                   /\ search_idx' = 1
  /\ UNCHANGED <<GROQ_API_KEY, SERPER_API_KEY, model_choice, topic, language,
                 research_depth, all_results, wiki_info, research_report, article,
                 final_article, sidebar_status>>

\* lines 180-183: one turn of the loop over search_queries (an exception out
\* of web_search would be caught at line 491)
WebSearch ==
  /\ pc = "searching"
  /\ \E o \in SearchOutcomes :
       LET ws == web_search(SERPER_API_KEY, o)
       IN  /\ netlog' = netlog \o OtherCalls("search", "query", ws.calls)
           /\ all_results' = all_results \o ws.hits
           /\ IF ws.raised
              THEN /\ error_shown' = Append(error_shown,
                                            Shown("error", ShownException \o o.detail))
                   /\ pc' = "failed"
                   /\ search_idx' = search_idx
              ELSE /\ error_shown' = error_shown
                   /\ pc' = IF search_idx < NumQueries THEN "searching" ELSE "wikipedia"
                   /\ search_idx' = IF search_idx < NumQueries THEN search_idx + 1
                                     ELSE search_idx
  /\ UNCHANGED <<prompt, transmitted, response, result, max_tokens, GROQ_API_KEY,
                 SERPER_API_KEY, model_choice, topic, language, research_depth, wiki_info,
                 research_report, article, final_article, test_result, sidebar_status>>

\* lines 186-196, and lines 491-493 when wikipedia_search raises
WikipediaSearch ==
  /\ pc = "wikipedia"
  /\ \E o \in WikiOutcomes :
       LET w == wikipedia_search(o)
       IN  /\ netlog' = netlog \o OtherCalls("encyclopedia", "lookup", w.calls)
           /\ wiki_info' = w.info
           /\ IF w.raised
              THEN /\ error_shown' = Append(error_shown,
                                            Shown("error", ShownException \o o.detail))
                   /\ pc' = "failed"
              ELSE /\ error_shown' = error_shown
                   /\ pc' = "report"
  /\ UNCHANGED <<prompt, transmitted, response, result, max_tokens, GROQ_API_KEY,
                 SERPER_API_KEY, model_choice, topic, language, research_depth, search_idx,
                 all_results, research_report, article, final_article, test_result,
                 sidebar_status>>

\* lines 348-352
GenerateReport ==
  /\ pc = "report"
  /\ LET p == research_prompt(topic, all_results, wiki_info) IN
     \E r \in Responses :
       LET ret == call_groq_api(GROQ_API_KEY, model_choice, p, ReportMaxTokens, r).ret
       IN  /\ Invoke("report", p, ReportMaxTokens, r)
           /\ research_report' = ret
           /\ IF ret = NoneVal
              THEN \* line 350 raises TypeError, caught at line 491
                   /\ error_shown' = Append(error_shown,
                                            Shown("error", ShownException \o NotIterableText("null")))
                   /\ pc' = "failed"
              ELSE IF IsError(ret)
              THEN /\ error_shown' = Append(error_shown,
                                            Shown("error", ShownResearchFailed \o ret))
                   /\ pc' = "failed"
              ELSE /\ error_shown' = error_shown
                   /\ pc' = "article"
  /\ UNCHANGED <<GROQ_API_KEY, SERPER_API_KEY, model_choice, topic, language,
                 research_depth, search_idx, all_results, wiki_info, article,
                 final_article, test_result, sidebar_status>>

\* lines 355-363
GenerateArticle ==
  /\ pc = "article"
  /\ LET p == article_prompt(topic, language, research_report, research_depth) IN
     \E r \in ResponsesFor(ArticleMaxTokens) :
       LET ret == call_groq_api(GROQ_API_KEY, model_choice, p, ArticleMaxTokens, r).ret
       IN  /\ Invoke("article", p, ArticleMaxTokens, r)
           /\ article' = ret
           /\ IF ret = NoneVal
              THEN \* line 357 raises TypeError, caught at line 491
                   /\ error_shown' = Append(error_shown,
                                            Shown("error", ShownException \o NotIterableText("null")))
                   /\ pc' = "failed"
                   /\ final_article' = final_article
              ELSE IF IsError(ret)
              THEN /\ error_shown' = Append(error_shown,
                                            Shown("error", ShownArticleFailed \o ret))
                   /\ pc' = "failed"
                   /\ final_article' = final_article
              ELSE /\ error_shown' = error_shown
                   /\ final_article' = ret
                   /\ pc' = AfterArticle(research_depth)
  /\ UNCHANGED <<GROQ_API_KEY, SERPER_API_KEY, model_choice, topic, language,
                 research_depth, search_idx, all_results, wiki_info, research_report,
                 test_result, sidebar_status>>

\* lines 364-367
ImproveArticle ==
  /\ pc = "polish"
  /\ LET p == improvement_prompt(article, topic, language) IN
     \E r \in ResponsesFor(ImproveMaxTokens) :
       LET ret == call_groq_api(GROQ_API_KEY, model_choice, p, ImproveMaxTokens, r).ret
       IN  /\ Invoke("polish", p, ImproveMaxTokens, r)
           /\ IF ret = NoneVal
              THEN \* line 365 raises TypeError, caught at line 491
                   /\ error_shown' = Append(error_shown,
                                            Shown("error", ShownException \o NotIterableText("null")))
                   /\ final_article' = ret
                   /\ pc' = "failed"
              ELSE \* line 366 warns when line 367 falls back
                   /\ error_shown' = error_shown
                   /\ final_article' = FinalArticle(ret, article)
                   /\ pc' = "done"
  /\ UNCHANGED <<GROQ_API_KEY, SERPER_API_KEY, model_choice, topic, language,
                 research_depth, search_idx, all_results, wiki_info, research_report,
                 article, test_result, sidebar_status>>

-----------------------------------------------------------------------------
(* The script run started by the sidebar's Test Connection button, lines 543-552 *)

SidebarTestConnection ==
  /\ pc = "idle"
  /\ IF Truthy(GROQ_API_KEY)
     THEN \E r \in Responses :
            LET res == call_groq_api(GROQ_API_KEY, model_choice, SidebarPrompt,
                                     TestMaxTokens, r)
            IN  /\ prompt' = SidebarPrompt
                /\ max_tokens' = TestMaxTokens
                /\ transmitted' = res.posts
                /\ response' = IF res.posts = << >> THEN NoResponse ELSE r
                /\ result' = [ret |-> res.ret, line |-> res.line]
                /\ netlog' = CompletionCalls("sidebar", res)
                /\ test_result' = res.ret
                /\ sidebar_status' =
                     IF res.ret = NoneVal THEN "exception"
                     ELSE IF In(WordWorking, res.ret) \/ In(WordHello, res.ret)
                     THEN "working"
                     ELSE "issue"
     ELSE /\ sidebar_status' = "no_key"
          /\ netlog' = << >>
          /\ UNCHANGED <<prompt, max_tokens, transmitted, response, result, test_result>>
  /\ pc' = "idle"
  /\ UNCHANGED <<GROQ_API_KEY, SERPER_API_KEY, model_choice, topic, language,
                 research_depth, search_idx, all_results, wiki_info, research_report,
                 article, final_article, error_shown>>

-----------------------------------------------------------------------------
(* A direct invocation of call_groq_api, lines 86-166 *)

ClientCall ==
  /\ pc = "client"
  /\ \E r \in ResponsesFor(max_tokens) : Invoke("direct", prompt, max_tokens, r)
  /\ pc' = "returned"
  /\ UNCHANGED <<GROQ_API_KEY, SERPER_API_KEY, model_choice, topic, language,
                 research_depth, search_idx, all_results, wiki_info, research_report,
                 article, final_article, test_result, error_shown, sidebar_status>>

-----------------------------------------------------------------------------

Next ==
  \/ StartRun
  \/ ConnectionTest
  \/ WebSearch
  \/ WikipediaSearch
  \/ GenerateReport
  \/ GenerateArticle
  \/ ImproveArticle
  \/ SidebarTestConnection
  \/ ClientCall

Spec == Init /\ [][Next]_vars

\* the state of the run in the words of the pipeline's state machine
RunState ==
  CASE pc \in {"idle", "testing"} -> "Idle"
    [] pc \in {"searching", "wikipedia"} -> "Gathering"
    [] pc = "report" -> "ReportGenerating"
    [] pc = "article" -> "ArticleGenerating"
    [] pc = "polish" -> "Polishing"
    [] pc = "done" -> "Done"
    [] pc = "failed" -> "Failed"
    [] OTHER -> "None"

-----------------------------------------------------------------------------
(* Vocabulary of the properties *)

TypeOK ==
  /\ pc \in {"idle", "testing", "searching", "wikipedia", "report", "article", "polish",
             "done", "failed", "client", "returned"}
  /\ research_depth \in {"Basic", "Detailed"}
  /\ search_idx \in 0..NumQueries
  /\ Len(transmitted) <= 1

\* the completion calls of the log, in order
CompletionLog == SelectSeq(netlog, LAMBDA e : e.svc = "completion")

\* the number of calls the log holds for a stage
CallsOf(stage) == Cardinality({i \in DOMAIN netlog : netlog[i].stage = stage})

\* the last network call made
LastCall == netlog[Len(netlog)]

\* a logged completion call that returned a Failure: it returned an error
\* message (every return but the one of line 153)
IsFailure(e) == e.svc = "completion" /\ e.line # 153

\* a logged completion call that returned Success(text): the content of the
\* first choice (line 153), a str
IsSuccess(e) == e.svc = "completion" /\ e.line = 153 /\ ~e.none

\* a run has been triggered with the Generate button
RunTriggered == pc \in {"testing", "searching", "wikipedia", "report", "article", "polish",
                        "done", "failed"}

\* the last thing the run showed
LastShown == error_shown[Len(error_shown)]

-----------------------------------------------------------------------------
(* C1: once the report call or the article call of a run has returned a
   Failure, that call is the last network call of the run (no article or
   polish call follows a failed report call, no polish call follows a failed
   article call), the run is in Failed, and the error it shows ends with the
   message of that Failure. *)
C1_FailureStopsRun ==
  \A i \in DOMAIN netlog :
    (IsFailure(netlog[i]) /\ netlog[i].stage \in {"report", "article"}) =>
      /\ i = Len(netlog)
      /\ pc = "failed"
      /\ CallsOf("polish") = 0
      /\ (netlog[i].stage = "report" => CallsOf("article") = 0)
      /\ error_shown # << >>
      /\ LastShown.level = "error"
      /\ LastShown.text =
           (IF netlog[i].stage = "report" THEN ShownResearchFailed \o research_report
            ELSE ShownArticleFailed \o article)
      /\ result.ret = (IF netlog[i].stage = "report" THEN research_report ELSE article)

\* a run whose article call was answered with status 401
C1_Witness ==
  /\ pc = "failed"
  /\ netlog # << >>
  /\ LastCall.stage = "article"
  /\ LastCall.line = 142
  /\ article = Msg401

(* C2: in a Detailed run whose polish call returned a Failure, the run is in
   Done and the final article is the text the article stage returned. *)
C2_PolishFallback ==
  (netlog # << >> /\ LastCall.stage = "polish" /\ IsFailure(LastCall)) =>
    /\ research_depth = "Detailed"
    /\ pc = "done"
    /\ final_article = article
    /\ \E i \in DOMAIN netlog : netlog[i].stage = "article" /\ IsSuccess(netlog[i])
    /\ \E i \in DOMAIN netlog : netlog[i].stage = "report" /\ IsSuccess(netlog[i])

\* a Detailed run whose polish call timed out
C2_Witness ==
  /\ pc = "done"
  /\ netlog # << >>
  /\ LastCall.stage = "polish"
  /\ LastCall.line = 156
  /\ final_article = TextHello

(* C3, as claimed: a Basic run never invokes the polish stage, and has made
   exactly 2 completion calls when it reaches Done. *)
C3_TwoCallsWhenBasic ==
  (RunTriggered /\ research_depth = "Basic") =>
    /\ CallsOf("polish") = 0
    /\ (pc = "done" => Len(CompletionLog) = 2)

(* C3, amended: a Basic run never invokes the polish stage, and has made
   exactly 3 completion calls when it reaches Done: the connection test, the
   report and the article, in this order. *)
C3_ThreeCallsWhenBasic ==
  (RunTriggered /\ research_depth = "Basic") =>
    /\ CallsOf("polish") = 0
    /\ pc # "polish"
    /\ (pc = "done" =>
          /\ Len(CompletionLog) = 3
          /\ CompletionLog[1].stage = "test"
          /\ CompletionLog[2].stage = "report"
          /\ CompletionLog[3].stage = "article")

\* a Basic run in Done
C3_Witness ==
  /\ pc = "done"
  /\ research_depth = "Basic"
  /\ final_article = TextHello

\* the credential is missing (None or empty) or does not start with gsk_
BadCredential ==
  \/ GROQ_API_KEY = NoneVal
  \/ Len(GROQ_API_KEY) < 4
  \/ SubSeq(GROQ_API_KEY, 1, 4) # <<"g", "s", "k", "_">>

(* C4: with a missing or malformed credential no network call is ever made;
   an invocation of the completion client returns an error message without
   a transport call, and a triggered run is in Failed. *)
C4_BadCredentialNoNetwork ==
  BadCredential =>
    /\ netlog = << >>
    /\ transmitted = << >>
    /\ response = NoResponse
    /\ (RunTriggered => pc = "failed" /\ error_shown # << >>)
    /\ (pc = "returned" \/ sidebar_status \in {"working", "issue", "exception"} =>
          /\ result.line \in {88, 91}
          /\ IsError(result.ret))
    /\ (pc = "returned" /\ ~Truthy(GROQ_API_KEY) => result.ret = MsgKeyNotFound)
    /\ (pc = "returned" /\ Truthy(GROQ_API_KEY) => result.ret = MsgKeyFormat)

\* the sidebar's test with a key that holds gsk_ but does not start with it
C4_Witness ==
  /\ GROQ_API_KEY = OtherKey
  /\ sidebar_status = "issue"
  /\ test_result = MsgKeyFormat
  /\ netlog = << >>

\* the latest answer is a 400 whose structured error message holds "rate"
RateMessage400 ==
  /\ response.kind = "Response"
  /\ response.status_code = 400
  /\ response.json.valid
  /\ response.json.type = "dict"
  /\ response.json.error.present
  /\ response.json.error.isdict
  /\ response.json.error.message \notin {Absent, NoneVal}
  /\ In(<<"r", "a", "t", "e">>, Lower(response.json.error.message))

(* C5: whenever the answer is a 400 whose structured error message holds
   "rate" (in any case), the completion client returns the rate-limit
   message of line 134, whatever else the message holds. *)
C5_RateAlwaysRateLimit ==
  RateMessage400 =>
    /\ result.line = 134
    /\ result.ret = MsgRateHead \o response.json.error.message

(* C6: no outcome of the searches or of the encyclopedia lookup aborts a
   run: a run is never in Failed with a search or an encyclopedia lookup as
   its last network call. *)
C6_GathererNeverAborts ==
  (pc = "failed" /\ netlog # << >>) => LastCall.svc \notin {"search", "encyclopedia"}

(* C7: the text transmitted for a prompt longer than 15000 characters is its
   first 15000 characters followed by the truncation marker; for a prompt of
   15000 characters or fewer it is the prompt. *)
C7_TruncationAt15000 ==
  transmitted # << >> =>
    LET sent == transmitted[1].content
    IN  IF Len(prompt) > 15000
        THEN /\ Len(sent) = 15000 + Len(TruncationMarker)
             /\ SubSeq(sent, 1, 15000) = SubSeq(prompt, 1, 15000)
             /\ SubSeq(sent, 15001, Len(sent)) = TruncationMarker
        ELSE sent = prompt

\* a direct invocation with a prompt of 15001 characters
C7_Witness ==
  /\ pc = "returned"
  /\ Len(prompt) = 15001
  /\ transmitted # << >>
  /\ Len(transmitted[1].content) = 15000 + Len(TruncationMarker)

(* C8: an invocation of the completion client makes at most one transport
   call; answered with status 401 it has made exactly one and returns the
   invalid-key message; and the log of a script run holds at most one
   completion call per stage. *)
C8_NoRetry ==
  /\ Len(transmitted) <= 1
  /\ (response.kind = "Response" /\ response.status_code = 401 =>
        /\ Len(transmitted) = 1
        /\ result.ret = Msg401
        /\ netlog # << >>)
  /\ \A s \in {"test", "report", "article", "polish", "sidebar", "direct"} : CallsOf(s) <= 1
  /\ Len(CompletionLog) <= 4

\* a run whose report call was answered with status 401
C8_Witness ==
  /\ pc = "failed"
  /\ response.kind = "Response"
  /\ response.status_code = 401
  /\ netlog # << >>
  /\ LastCall.stage = "report"

(* C9: a run is in Failed after its report or article call only if that
   call returned a Failure; and a finished run all of whose completion calls
   returned Success(text) is in Done with the text of its last call as the
   final article. *)
C9_AbortOnlyOnFailure ==
  /\ (pc = "failed" /\ netlog # << >> /\ LastCall.stage \in {"report", "article"}) =>
       IsFailure(LastCall)
  /\ (pc \in {"done", "failed"} /\ CompletionLog # << >>
      /\ \A i \in DOMAIN CompletionLog : IsSuccess(CompletionLog[i])) =>
       /\ pc = "done"
       /\ final_article = result.ret

\* the order of the states of a run
OrderedStep ==
  \/ RunState = "None" /\ RunState' = "None"
  \/ RunState = "Idle" /\ RunState' \in {"Idle", "Gathering"}
  \/ RunState = "Gathering" /\ RunState' \in {"Gathering", "ReportGenerating"}
  \/ RunState = "ReportGenerating" /\ RunState' = "ArticleGenerating"
  \/ RunState = "ArticleGenerating" /\ RunState' = "Polishing" /\ research_depth = "Detailed"
  \/ RunState = "ArticleGenerating" /\ RunState' = "Done" /\ research_depth # "Detailed"
  \/ RunState = "Polishing" /\ RunState' = "Done"
  \/ RunState \notin {"None", "Done", "Failed"} /\ RunState' = "Failed"

TerminalStep == RunState \in {"Done", "Failed"} => netlog' = netlog /\ RunState' = RunState

(* C10, as claimed: a run goes through Idle, Gathering, ReportGenerating,
   ArticleGenerating, Polishing if and only if the depth is Detailed, and
   Done, in this order; it enters Failed only from ReportGenerating,
   ArticleGenerating or Polishing; and no network call is made once it is in
   Done or Failed. *)
C10_FailedOnlyFromGenerating ==
  [][/\ OrderedStep
     /\ (RunState' = "Failed" =>
           RunState \in {"ReportGenerating", "ArticleGenerating", "Polishing"})
     /\ TerminalStep]_vars

(* C10, amended: a run goes through Idle, Gathering, ReportGenerating,
   ArticleGenerating, Polishing if and only if the depth is Detailed, and
   Done, in this order; it enters Failed from Idle (the credential checks
   and the connection test), from Gathering after an encyclopedia lookup
   only, never after a search, or from a generating state after that
   state's completion call; and no network call is made once it is in Done
   or Failed. *)
C10_RunOrder ==
  [][/\ OrderedStep
     /\ (RunState' = "Failed" =>
           \/ pc = "idle" /\ netlog' = << >>
           \/ pc = "testing" /\ Len(netlog') = 1 /\ netlog'[1].stage = "test"
           \/ /\ pc = "wikipedia"
              /\ Len(netlog') > Len(netlog)
              /\ netlog'[Len(netlog')].svc = "encyclopedia"
           \/ /\ pc \in {"report", "article", "polish"}
              /\ Len(netlog') = Len(netlog) + 1
              /\ netlog'[Len(netlog')].stage = pc)
     /\ TerminalStep]_vars

\* a Detailed run in Done after its polish call
C10_Witness ==
  /\ pc = "done"
  /\ research_depth = "Detailed"
  /\ netlog # << >>
  /\ LastCall.stage = "polish"
  /\ IsSuccess(LastCall)
  /\ final_article = TextHello

\* the latest answer has status 200 and a body that is an object whose
\* "choices" is a list of at least one item, the first an object whose
\* "message" is an object with a "content"
WellFormed200 ==
  /\ response.kind = "Response"
  /\ response.status_code = 200
  /\ response.json.valid
  /\ response.json.type = "dict"
  /\ response.json.choices.present
  /\ response.json.choices.sized
  /\ Len(response.json.choices.items) >= 1
  /\ response.json.choices.items[1].message = "dict"
  /\ response.json.choices.items[1].content # Absent

(* C11: whatever the transport answers (any status, a timeout, a connection
   failure, a body that is no JSON, a body without the expected fields, an
   error of an unexpected shape, any other exception), the completion client
   leaves through a return statement; the return is the one of line 153,
   Success, if and only if the status is 200 and the body is well formed
   with at least one choice, and the value returned is then the content of
   the first choice; every other return gives a message that starts with
   Error. *)
C11_AlwaysReturns ==
  response # NoResponse =>
    /\ result.line # 0
    /\ result.line = 153 <=> WellFormed200
    /\ WellFormed200 => result.ret = response.json.choices.items[1].content
    /\ result.line # 153 => result.ret # NoneVal /\ StartsWith(result.ret, ErrorWord)

\* a direct invocation answered with status 200 and a first choice without
\* "message": the KeyError is returned as a message (line 164)
C11_Witness ==
  /\ pc = "returned"
  /\ response.kind = "Response"
  /\ response.status_code = 200
  /\ result.line = 164
  /\ result.ret = MsgMissingField \o TextKeyMessage

(* C12: whenever the polish call has been made, the text transmitted to the
   completion backend holds the whole text the article stage returned. *)
C12_PolishSendsWholeArticle ==
  (netlog # << >> /\ LastCall.stage = "polish" /\ transmitted # << >>) =>
    In(article, transmitted[1].content)
====
